---- MODULE Spec2Model ----
(***************************************************************************)
(* Model of PDE/AutoDeriv.py: forward-mode automatic differentiation.      *)
(*                                                                         *)
(* A quantity (ADVar) is a value and a list object holding (index,         *)
(* partial) pairs.  Python floats are modelled as decimal floating-point   *)
(* numbers [m, e] (value m * 10^e) carrying four significant digits, and   *)
(* the math library as tables over sample points.  List objects live in a  *)
(* heap, because some operators store a reference to an operand's list.    *)
(***************************************************************************)
EXTENDS Integers, Sequences, FiniteSets, TLC

VARIABLES
    objs,    \* heap of ADVar objects: sequence of [val, deriv], deriv a list id
    lists,   \* heap of Python list objects: sequence of sequences of <<idx, partial>>
    last,    \* log of the most recent call and its outcome ("off": no log kept)
    ma,      \* _calcDeriv: argument a, as [val, deriv]
    mb,      \* _calcDeriv: argument b
    mfunc,   \* _calcDeriv: argument func (name of the lambda)
    mst,     \* _calcDeriv: the locals i, j, ix, iy, dx, dy, deriv
    mpc,     \* _calcDeriv: "loop", "returned" or "raised"
    miter,   \* _calcDeriv: number of loop iterations executed
    call,    \* log of the most recent free-function call on a plain number
    writes   \* number of writes callers have made through setVal and getDeriv()

vars == <<objs, lists, last, ma, mb, mfunc, mst, mpc, miter, call, writes>>

mergeVars == <<ma, mb, mfunc, mst, mpc, miter>>

-----------------------------------------------------------------------------
(* Bounds of the model.                                                    *)

MaxIdx == 1      \* seeds and merge inputs use variable indices 0..MaxIdx and sys.maxint
MaxLen == 2      \* longest derivative sequence given to _calcDeriv
MaxObjs == 3     \* number of ADVar objects alive on the heap
MaxWrites == 1   \* number of writes through setVal and getDeriv()

-----------------------------------------------------------------------------
(* Python floats.                                                          *)

Digits == 4

RECURSIVE Pow10(_)
Pow10(n) == IF n <= 0 THEN 1 ELSE 10 * Pow10(n - 1)

Lim == Pow10(Digits)

IAbs(n) == IF n < 0 THEN -n ELSE n

ISign(n) == IF n < 0 THEN -1 ELSE IF n > 0 THEN 1 ELSE 0

RECURSIVE NormAbs(_, _)
NormAbs(m, e) ==
    IF m = 0 THEN <<0, 0>>
    ELSE IF m >= Lim \/ m % 10 = 0 THEN NormAbs(m \div 10, e + 1)
    ELSE <<m, e>>

\* The float m * 10^e, cut to Digits significant digits.
Flt(m, e) ==
    LET n == NormAbs(IAbs(m), e)
    IN  [m |-> ISign(m) * n[1], e |-> n[2]]

Zero == Flt(0, 0)
One == Flt(1, 0)

FNeg(a) == [m |-> -a.m, e |-> a.e]

FAbs(a) == [m |-> IAbs(a.m), e |-> a.e]

FMul(a, b) == Flt(a.m * b.m, a.e + b.e)

\* m * 10^e with m > 0 brought to 2 * Digits digits, as <<m, e>>
RECURSIVE Widen(_, _)
Widen(m, e) == IF m * 10 >= Lim * Lim THEN <<m, e>> ELSE Widen(m * 10, e - 1)

\* a / b for b # 0
FDiv(a, b) ==
    IF a.m = 0 THEN a
    ELSE LET w == Widen(IAbs(a.m), a.e)
         IN  Flt(ISign(a.m) * ISign(b.m) * (w[1] \div IAbs(b.m)), w[2] - b.e)

\* hi + lo where hi.e >= lo.e: both are brought to the exponent hi.e - Digits
FAddAligned(hi, lo) ==
    LET d == hi.e - lo.e
        l == IF d <= Digits THEN lo.m * Pow10(Digits - d)
             ELSE IF d >= 2 * Digits THEN 0
             ELSE ISign(lo.m) * (IAbs(lo.m) \div Pow10(d - Digits))
    IN  Flt(hi.m * Lim + l, hi.e - Digits)

FAdd(a, b) ==
    IF a.m = 0 THEN b
    ELSE IF b.m = 0 THEN a
    ELSE IF a.e >= b.e THEN FAddAligned(a, b) ELSE FAddAligned(b, a)

FSub(a, b) == FAdd(a, FNeg(b))

FLt(a, b) == FSub(a, b).m < 0

FLe(a, b) == FSub(a, b).m <= 0

FMax(a, b) == IF FLt(a, b) THEN b ELSE a

\* A raised exception, where a value was expected.
Raise(name) == [err |-> name]

IsErr(v) == "err" \in DOMAIN v

\* pow(v, n) for an integer-valued exponent n
RECURSIVE FPow(_, _)
FPow(v, n) ==
    IF n = 0 THEN One
    ELSE IF n > 0 THEN FMul(v, FPow(v, n - 1))
    ELSE IF v.m = 0 THEN Raise("ZeroDivisionError")
    ELSE FDiv(One, FPow(v, -n))

-----------------------------------------------------------------------------
(* The math library, at the sample points MathPts.                         *)

expTable ==
    (Flt(-8000, -1) :> Flt(0, 0)) @@
    (Flt(-7097, -1) :> Flt(6042, -312)) @@
    (Flt(-5000, -1) :> Flt(7124, -221)) @@
    (Flt(-2000, -3) :> Flt(1353, -4)) @@
    (Flt(-1000, -3) :> Flt(3678, -4)) @@
    (Flt(0, 0) :> Flt(1000, -3)) @@
    (Flt(1000, -3) :> Flt(2718, -3)) @@
    (Flt(2000, -3) :> Flt(7389, -3)) @@
    (Flt(3000, -3) :> Flt(2008, -2)) @@
    (Flt(5000, -1) :> Flt(1403, 214)) @@
    (Flt(7097, -1) :> Flt(1654, 305)) @@
    (Flt(8000, -1) :> Raise("OverflowError"))

logTable ==
    (Flt(-8000, -1) :> Raise("ValueError")) @@
    (Flt(-7097, -1) :> Raise("ValueError")) @@
    (Flt(-5000, -1) :> Raise("ValueError")) @@
    (Flt(-2000, -3) :> Raise("ValueError")) @@
    (Flt(-1000, -3) :> Raise("ValueError")) @@
    (Flt(0, 0) :> Raise("ValueError")) @@
    (Flt(1000, -3) :> Flt(0, 0)) @@
    (Flt(2000, -3) :> Flt(6931, -4)) @@
    (Flt(3000, -3) :> Flt(1098, -3)) @@
    (Flt(5000, -1) :> Flt(6214, -3)) @@
    (Flt(7097, -1) :> Flt(6564, -3)) @@
    (Flt(8000, -1) :> Flt(6684, -3))

sinTable ==
    (Flt(-8000, -1) :> Flt(-8939, -4)) @@
    (Flt(-7097, -1) :> Flt(2954, -4)) @@
    (Flt(-5000, -1) :> Flt(4677, -4)) @@
    (Flt(-2000, -3) :> Flt(-9092, -4)) @@
    (Flt(-1000, -3) :> Flt(-8414, -4)) @@
    (Flt(0, 0) :> Flt(0, 0)) @@
    (Flt(1000, -3) :> Flt(8414, -4)) @@
    (Flt(2000, -3) :> Flt(9092, -4)) @@
    (Flt(3000, -3) :> Flt(1411, -4)) @@
    (Flt(5000, -1) :> Flt(-4677, -4)) @@
    (Flt(7097, -1) :> Flt(-2954, -4)) @@
    (Flt(8000, -1) :> Flt(8939, -4))

cosTable ==
    (Flt(-8000, -1) :> Flt(-4481, -4)) @@
    (Flt(-7097, -1) :> Flt(9553, -4)) @@
    (Flt(-5000, -1) :> Flt(-8838, -4)) @@
    (Flt(-2000, -3) :> Flt(-4161, -4)) @@
    (Flt(-1000, -3) :> Flt(5403, -4)) @@
    (Flt(0, 0) :> Flt(1000, -3)) @@
    (Flt(1000, -3) :> Flt(5403, -4)) @@
    (Flt(2000, -3) :> Flt(-4161, -4)) @@
    (Flt(3000, -3) :> Flt(-9899, -4)) @@
    (Flt(5000, -1) :> Flt(-8838, -4)) @@
    (Flt(7097, -1) :> Flt(9553, -4)) @@
    (Flt(8000, -1) :> Flt(-4481, -4))

sinhTable ==
    (Flt(-8000, -1) :> Raise("OverflowError")) @@
    (Flt(-7097, -1) :> Flt(-8274, 304)) @@
    (Flt(-5000, -1) :> Flt(-7017, 213)) @@
    (Flt(-2000, -3) :> Flt(-3626, -3)) @@
    (Flt(-1000, -3) :> Flt(-1175, -3)) @@
    (Flt(0, 0) :> Flt(0, 0)) @@
    (Flt(1000, -3) :> Flt(1175, -3)) @@
    (Flt(2000, -3) :> Flt(3626, -3)) @@
    (Flt(3000, -3) :> Flt(1001, -2)) @@
    (Flt(5000, -1) :> Flt(7017, 213)) @@
    (Flt(7097, -1) :> Flt(8274, 304)) @@
    (Flt(8000, -1) :> Raise("OverflowError"))

coshTable ==
    (Flt(-8000, -1) :> Raise("OverflowError")) @@
    (Flt(-7097, -1) :> Flt(8274, 304)) @@
    (Flt(-5000, -1) :> Flt(7017, 213)) @@
    (Flt(-2000, -3) :> Flt(3762, -3)) @@
    (Flt(-1000, -3) :> Flt(1543, -3)) @@
    (Flt(0, 0) :> Flt(1000, -3)) @@
    (Flt(1000, -3) :> Flt(1543, -3)) @@
    (Flt(2000, -3) :> Flt(3762, -3)) @@
    (Flt(3000, -3) :> Flt(1006, -2)) @@
    (Flt(5000, -1) :> Flt(7017, 213)) @@
    (Flt(7097, -1) :> Flt(8274, 304)) @@
    (Flt(8000, -1) :> Raise("OverflowError"))

MathPts == DOMAIN expTable

math_exp(x) == expTable[x]
math_log(x) == IF x.m <= 0 THEN Raise("ValueError") ELSE logTable[x]
math_sin(x) == sinTable[x]
math_cos(x) == cosTable[x]
math_sinh(x) == sinhTable[x]
math_cosh(x) == coshTable[x]

-----------------------------------------------------------------------------
(* _calcDeriv: the merge of two derivative sequences.                      *)

\* sys.maxint of a 32-bit build
maxint == 2147483647

\* A local variable that has not been assigned yet.
Unbound == [unbound |-> TRUE]

IMin(x, y) == IF x <= y THEN x ELSE y

\* The lambdas the operators hand to _calcDeriv: func(x, y, dx, dy).
Lambda(func, x, y, dx, dy) ==
    CASE func = "add" -> FAdd(dx, dy)
      [] func = "sub" -> FSub(dx, dy)
      [] func = "mul" -> FAdd(FMul(y, dx), FMul(x, dy))
      [] func = "div" -> IF FMul(y, y).m = 0 THEN Raise("ZeroDivisionError")
                         ELSE FDiv(FSub(FMul(y, dx), FMul(x, dy)), FMul(y, y))

\* The locals on entry to the loop (lines 45-50).
CalcDerivEntry ==
    [i |-> 0, j |-> 0, ix |-> Unbound, iy |-> Unbound, dx |-> Unbound,
     dy |-> Unbound, deriv |-> <<>>, err |-> ""]

\* The loop test of line 51.
CalcDerivMore(a, b, st) == st.i < Len(a.deriv) \/ st.j < Len(b.deriv)

\* CalcDerivStep with a slip in the shared-index branch: the entry is appended
\* once for each side.
CalcDerivStepTwice(a, b, func, st) ==
    LET inA == st.i < Len(a.deriv)
        inB == st.j < Len(b.deriv)
        ix == IF inA THEN a.deriv[st.i + 1][1] ELSE maxint
        dx == IF inA THEN a.deriv[st.i + 1][2] ELSE st.dx
        iy == IF inB THEN b.deriv[st.j + 1][1] ELSE maxint
        dy == IF inB THEN b.deriv[st.j + 1][2] ELSE st.dy
        ii == IMin(ix, iy)
        da == IF ix > iy THEN Zero ELSE dx
        db == IF ix < iy THEN Zero ELSE dy
        s1 == [st EXCEPT !.ix = ix, !.iy = iy, !.dx = dx, !.dy = dy]
    IN  IF da = Unbound \/ db = Unbound
        THEN [s1 EXCEPT !.err = "UnboundLocalError"]
        ELSE LET v == Lambda(func, a.val, b.val, da, db)
             IN  IF IsErr(v) THEN [s1 EXCEPT !.err = v.err]
                 ELSE [s1 EXCEPT !.deriv = IF ix = iy
                                           THEN st.deriv \o <<<<ii, v>>, <<ii, v>>>>
                                           ELSE Append(st.deriv, <<ii, v>>),
                                 !.i = IF ix <= iy THEN st.i + 1 ELSE st.i,
                                 !.j = IF ix >= iy THEN st.j + 1 ELSE st.j]

\* One iteration of the loop body (lines 52-71).
CalcDerivStep(a, b, func, st) ==
    LET inA == st.i < Len(a.deriv)
        inB == st.j < Len(b.deriv)
        ix == IF inA THEN a.deriv[st.i + 1][1] ELSE maxint
        dx == IF inA THEN a.deriv[st.i + 1][2] ELSE st.dx
        iy == IF inB THEN b.deriv[st.j + 1][1] ELSE maxint
        dy == IF inB THEN b.deriv[st.j + 1][2] ELSE st.dy
        ii == IMin(ix, iy)
        da == IF ix > iy THEN Zero ELSE dx
        db == IF ix < iy THEN Zero ELSE dy
        s1 == [st EXCEPT !.ix = ix, !.iy = iy, !.dx = dx, !.dy = dy]
    IN  IF da = Unbound \/ db = Unbound
        THEN [s1 EXCEPT !.err = "UnboundLocalError"]
        ELSE LET v == Lambda(func, a.val, b.val, da, db)
             IN  IF IsErr(v) THEN [s1 EXCEPT !.err = v.err]
                 ELSE [s1 EXCEPT !.deriv = Append(st.deriv, <<ii, v>>),
                                 !.i = IF ix <= iy THEN st.i + 1 ELSE st.i,
                                 !.j = IF ix >= iy THEN st.j + 1 ELSE st.j]

RECURSIVE CalcDerivLoop(_, _, _, _)
CalcDerivLoop(a, b, func, st) ==
    IF st.err # "" \/ ~CalcDerivMore(a, b, st) THEN st
    ELSE CalcDerivLoop(a, b, func, CalcDerivStep(a, b, func, st))

\* A list handed back by a function.
List(s) == [list |-> s]

\* _calcDeriv(a, b, func) for two ADVar arguments: the list returned, or the
\* exception raised.
_calcDeriv(a, b, func) ==
    LET st == CalcDerivLoop(a, b, func, CalcDerivEntry)
    IN  IF st.err # "" THEN Raise(st.err) ELSE List(st.deriv)

-----------------------------------------------------------------------------
(* class ADVar.  An operator below is a method: self is an object id, and  *)
(* other is an operand, a plain number or a reference to an ADVar.  Its    *)
(* value describes the object the method returns (New: with a list of its  *)
(* own; Shared: with a reference to an existing list) or is the exception  *)
(* it raises.                                                              *)

Num(c) == [kind |-> "float", num |-> c]

Ref(o) == [kind |-> "ADVar", ref |-> o]

isADVar(x) == x.kind = "ADVar"

New(val, deriv) == [val |-> val, deriv |-> deriv, alias |-> 0]

Shared(val, listId) == [val |-> val, deriv |-> <<>>, alias |-> listId]

\* self.val and the contents of self.deriv
Val(o) == objs[o].val

Deriv(o) == lists[objs[o].deriv]

Quantity(o) == [val |-> Val(o), deriv |-> Deriv(o)]

\* for i,dx in deriv: r.deriv.append((i, G(dx)))
MapDeriv(deriv, G(_)) == [n \in DOMAIN deriv |-> <<deriv[n][1], G(deriv[n][2])>>]

\* A merge result becomes the new object's list, an exception passes through.
WithMerge(val, d) == IF IsErr(d) THEN d ELSE New(val, d.list)

__init__(val, idx) == New(val, IF idx >= 0 THEN <<<<idx, One>>>> ELSE <<>>)

RECURSIVE FirstPartial(_, _, _)
FirstPartial(deriv, idx, n) ==
    IF n > Len(deriv) THEN Zero
    ELSE IF deriv[n][1] = idx THEN deriv[n][2]
    ELSE FirstPartial(deriv, idx, n + 1)

\* getDeriv(idx) for idx >= 0
getDeriv(o, idx) == FirstPartial(Deriv(o), idx, 1)

__add__(self, other) ==
    IF ~isADVar(other) THEN Shared(FAdd(Val(self), other.num), objs[self].deriv)
    ELSE WithMerge(FAdd(Val(self), Val(other.ref)),
                   _calcDeriv(Quantity(self), Quantity(other.ref), "add"))

__radd__(self, other) == Shared(FAdd(other.num, Val(self)), objs[self].deriv)

__sub__(self, other) ==
    IF ~isADVar(other) THEN Shared(FSub(Val(self), other.num), objs[self].deriv)
    ELSE WithMerge(FSub(Val(self), Val(other.ref)),
                   _calcDeriv(Quantity(self), Quantity(other.ref), "sub"))

__rsub__(self, other) ==
    New(FSub(other.num, Val(self)), MapDeriv(Deriv(self), LAMBDA dx : FNeg(dx)))

__mul__(self, other) ==
    IF ~isADVar(other)
    THEN New(FMul(Val(self), other.num),
             MapDeriv(Deriv(self), LAMBDA dx : FMul(dx, other.num)))
    ELSE WithMerge(FMul(Val(self), Val(other.ref)),
                   _calcDeriv(Quantity(self), Quantity(other.ref), "mul"))

__rmul__(self, other) ==
    New(FMul(other.num, Val(self)),
        MapDeriv(Deriv(self), LAMBDA dx : FMul(other.num, dx)))

__div__(self, other) ==
    IF ~isADVar(other)
    THEN IF other.num.m = 0 THEN Raise("ZeroDivisionError")
         ELSE New(FDiv(Val(self), other.num),
                  MapDeriv(Deriv(self), LAMBDA dx : FDiv(dx, other.num)))
    ELSE IF Val(other.ref).m = 0 THEN Raise("ZeroDivisionError")
         ELSE WithMerge(FDiv(Val(self), Val(other.ref)),
                        _calcDeriv(Quantity(self), Quantity(other.ref), "div"))

__rdiv__(self, other) ==
    IF Val(self).m = 0 THEN Raise("ZeroDivisionError")
    ELSE New(FDiv(other.num, Val(self)),
             MapDeriv(Deriv(self),
                      LAMBDA dx : FDiv(FMul(FNeg(other.num), dx),
                                       FMul(Val(self), Val(self)))))

\* The exponent is float(n) for an integer n.
__pow__(self, other, modulo) ==
    IF modulo # 0 THEN Raise("TypeError")
    ELSE IF isADVar(other) THEN Raise("TypeError")
    ELSE LET n == other.num.m * Pow10(other.num.e)
             p == FPow(Val(self), n - 1)
         IN  IF IsErr(p) THEN p
             ELSE LET tmp == FMul(other.num, p)
                  IN  New(FPow(Val(self), n),
                          MapDeriv(Deriv(self), LAMBDA dx : FMul(tmp, dx)))

__abs__(self) ==
    LET sign == Flt(ISign(Val(self).m), 0)
    IN  IF sign # Zero
        THEN New(FAbs(Val(self)), MapDeriv(Deriv(self), LAMBDA dx : FMul(sign, dx)))
        ELSE New(FAbs(Val(self)),
                 MapDeriv(Deriv(self), LAMBDA dx : FMul(Flt(ISign(dx.m), 0), dx)))

__pos__(self) == Shared(Val(self), objs[self].deriv)

__neg__(self) == New(FNeg(Val(self)), MapDeriv(Deriv(self), LAMBDA dx : FNeg(dx)))

\* The answer of a predicate.
Bool(b) == [flag |-> b]

\* self - other as derivEq and derivApproxEq use it: the difference's list
Difference(self, other) == _calcDeriv(Quantity(self), Quantity(other), "sub")

derivEq(self, other) ==
    IF Val(self) # Val(other) THEN Bool(FALSE)
    ELSE LET tmp == Difference(self, other)
         IN  IF IsErr(tmp) THEN tmp
             ELSE Bool(\A n \in DOMAIN tmp.list : tmp.list[n][2] = Zero)

derivApproxEq(self, other, tol) ==
    LET absTol == FMax(FAbs(Val(self)), FAbs(Val(other)))
    IN  IF ~FLt(FAbs(FSub(Val(self), Val(other))), absTol) THEN Bool(FALSE)
        ELSE LET tmp == Difference(self, other)
             IN  IF IsErr(tmp) THEN tmp
                 ELSE Bool(\A n \in DOMAIN tmp.list : FLt(FAbs(tmp.list[n][2]), absTol))

-----------------------------------------------------------------------------
(* The free functions.  x is an operand; for a plain number the value is   *)
(* the number returned, for an ADVar the object returned.                  *)

\* float(x): x.__float__() for an ADVar
float(x) == IF isADVar(x) THEN Val(x.ref) ELSE x.num

exp(x) ==
    IF ~isADVar(x) THEN math_exp(x.num)
    ELSE LET v == math_exp(float(x))
         IN  IF IsErr(v) THEN v
             ELSE New(v, MapDeriv(Deriv(x.ref), LAMBDA dx : FMul(v, dx)))

\* The loop of lines 331-335 from entry n on, acc the entries appended so far.
RECURSIVE LogLoop(_, _, _, _)
LogLoop(val, deriv, n, acc) ==
    IF n > Len(deriv) THEN List(acc)
    ELSE LET dx == deriv[n][2]
         IN  IF val.m > 0 \/ (val.m = 0 /\ dx.m >= 0)
             THEN IF val.m = 0 THEN Raise("ZeroDivisionError")
                  ELSE LogLoop(val, deriv, n + 1,
                               Append(acc, <<deriv[n][1], FDiv(dx, val)>>))
             ELSE Raise("ArithmeticError")

log(x) ==
    IF ~isADVar(x) THEN math_log(x.num)
    ELSE LET v == math_log(float(x))
         IN  IF IsErr(v) THEN v
             ELSE WithMerge(v, LogLoop(Val(x.ref), Deriv(x.ref), 1, <<>>))

sin(x) ==
    IF ~isADVar(x) THEN math_sin(x.num)
    ELSE LET rcos == math_cos(float(x))
         IN  New(math_sin(float(x)),
                 MapDeriv(Deriv(x.ref), LAMBDA dx : FMul(rcos, dx)))

cos(x) ==
    IF ~isADVar(x) THEN math_sin(x.num)
    ELSE LET rsin == math_sin(float(x))
         IN  New(math_cos(float(x)),
                 MapDeriv(Deriv(x.ref), LAMBDA dx : FMul(FNeg(rsin), dx)))

\* The breakpoints (lines 365-380), to four digits.
_BP0_AUX1 == Flt(-8121, -6)
_BP1_AUX1 == Flt(8121, -6)
_BP0_DAUX1 == Flt(-2710, -6)
_BP1_DAUX1 == Flt(2710, -6)
_BP2_DAUX1 == Flt(-2918, -1)
_BP3_DAUX1 == Flt(2918, -1)
_BP4_DAUX1 == Flt(-7451, -1)
_BP5_DAUX1 == Flt(7451, -1)
_BP0_AUX2 == Flt(-3673, -2)
_BP1_AUX2 == Flt(3680, -2)
_BP2_AUX2 == Flt(7451, -1)
_BP0_DAUX2 == Flt(-7451, -1)
_BP1_DAUX2 == Flt(-3673, -2)
_BP2_DAUX2 == Flt(3680, -2)
_BP3_DAUX2 == Flt(7451, -1)
_BP0_MISC == Flt(7097, -1)

\* aux1, lines 396-404: y, the clamped input
Aux1Clamp(x) ==
    IF FLt(float(x), FNeg(_BP0_MISC)) THEN FNeg(_BP0_MISC)
    ELSE IF FLt(_BP0_MISC, float(x)) THEN _BP0_MISC
    ELSE float(x)

\* aux1, lines 406-411: z
Aux1Value(y) ==
    IF FLe(y, _BP0_AUX1) THEN FDiv(y, math_sinh(y))
    ELSE IF FLe(y, _BP1_AUX1)
    THEN FSub(One, FMul(FDiv(FMul(y, y), Flt(6, 0)),
                        FSub(One, FDiv(FMul(FMul(Flt(7, 0), y), y), Flt(60, 0)))))
    ELSE FDiv(y, math_sinh(y))

\* aux1, lines 419-434: the branch that sets pd
Aux1Band(y) ==
    IF FLe(y, _BP4_DAUX1) THEN "zero-"
    ELSE IF FLe(y, _BP2_DAUX1) THEN "tail-"
    ELSE IF FLe(y, _BP0_DAUX1) THEN "ratio-"
    ELSE IF FLe(y, _BP1_DAUX1) THEN "taylor"
    ELSE IF FLe(y, _BP3_DAUX1) THEN "ratio+"
    ELSE IF FLe(y, _BP5_DAUX1) THEN "tail+"
    ELSE "zero+"

\* aux1, lines 419-434: pd
Aux1Pd(y, z) ==
    CASE Aux1Band(y) = "zero-" -> Zero
      [] Aux1Band(y) = "tail-" -> FMul(FNeg(FAdd(One, y)), math_exp(y))
      [] Aux1Band(y) = "ratio-" ->
            LET tmp == math_sinh(y)
            IN  FDiv(FSub(tmp, FMul(y, math_cosh(y))), FMul(tmp, tmp))
      [] Aux1Band(y) = "taylor" ->
            FMul(FDiv(FNeg(y), Flt(3, 0)),
                 FSub(One, FDiv(FMul(FMul(Flt(7, 0), y), y), Flt(30, 0))))
      [] Aux1Band(y) = "ratio+" ->
            FDiv(FSub(z, FMul(y, math_cosh(y))), FMul(z, z))
      [] Aux1Band(y) = "tail+" -> FMul(FSub(One, y), math_exp(FNeg(y)))
      [] Aux1Band(y) = "zero+" -> Zero

aux1(x) ==
    LET y == Aux1Clamp(x)
        z == Aux1Value(y)
    IN  IF ~isADVar(x) THEN z
        ELSE New(z, MapDeriv(Deriv(x.ref), LAMBDA dx : FMul(Aux1Pd(y, z), dx)))

\* aux2, lines 459-466: z
Aux2Value(y) ==
    IF FLe(y, _BP0_AUX2) THEN One
    ELSE IF FLe(y, _BP1_AUX2) THEN FDiv(One, FAdd(One, math_exp(y)))
    ELSE IF FLe(y, _BP2_AUX2) THEN math_exp(FNeg(y))
    ELSE Zero

\* aux2, lines 473-484: pd
Aux2Pd(y) ==
    IF FLe(y, _BP0_DAUX2) THEN Zero
    ELSE IF FLe(y, _BP1_DAUX2) THEN FNeg(math_exp(y))
    ELSE IF FLe(y, _BP2_DAUX2)
    THEN LET tmp1 == math_exp(y)
             tmp2 == FAdd(tmp1, One)
         IN  FDiv(FNeg(tmp1), FMul(tmp2, tmp2))
    ELSE IF FLe(y, _BP3_DAUX2) THEN FNeg(math_exp(FNeg(y)))
    ELSE Zero

aux2(x) ==
    LET y == float(x)
        z == Aux2Value(y)
    IN  IF ~isADVar(x) THEN z
        ELSE New(z, MapDeriv(Deriv(x.ref), LAMBDA dx : FMul(Aux2Pd(y), dx)))

-----------------------------------------------------------------------------
(* Inputs.                                                                 *)

Indices == (0 .. MaxIdx) \cup {maxint}

Partials == {Flt(1, 0), Flt(2, 0)}

MergeVals == {Flt(0, 0), Flt(2, 0), Flt(3, 0)}

Funcs == {"add", "sub", "mul", "div"}

\* strictly ascending by index, hence at most one entry per index
WellFormed(s) == \A k \in 1 .. Len(s) - 1 : s[k][1] < s[k + 1][1]

DerivSeqs ==
    {s \in UNION {[1 .. n -> Indices \X Partials] : n \in 0 .. MaxLen} :
        WellFormed(s)}

SeedVals == {Flt(0, 0), Flt(2, 0), Flt(3, 0)}

SeedIdx == {-1} \cup Indices

Scalars == {Flt(-1, 0)}

PowExps == {Flt(2, 0)}

Modulos == {0, 3}

Tols == {Flt(1, -6), Flt(1, 0)}

FnVals ==
    {Flt(-800, 0), Flt(-500, 0), Flt(-1, 0), Flt(0, 0), Flt(1, 0), Flt(500, 0),
     Flt(800, 0)}

FnDerivs ==
    {<<>>, <<<<0, Flt(1, 0)>>>>, <<<<0, Flt(2, 0)>>, <<1, Flt(-1, 0)>>>>}

FreeFns == {"exp", "log", "sin", "cos", "aux1", "aux2"}

\* The points where the model knows the math library.
InMathDom(fn, v) ==
    CASE fn = "log" -> v.m <= 0 \/ v \in MathPts
      [] fn = "aux1" -> FLt(v, FNeg(_BP0_MISC)) \/ FLt(_BP0_MISC, v) \/ v \in MathPts
      [] OTHER -> v \in MathPts

-----------------------------------------------------------------------------
(* The calls.  Return records a call's outcome: the object returned goes   *)
(* on the heap, a raised exception leaves the heap as it was.  Calls are   *)
(* made while fewer than MaxObjs objects exist.                            *)

NoArg == [kind |-> "none"]

NoCall ==
    [op |-> "none", self |-> 0, other |-> NoArg, extra |-> Zero, ret |-> 0,
     err |-> "", flag |-> FALSE]

\* The log of a specification that observes no calls.
Off == [NoCall EXCEPT !.op = "off"]

Log(entry) == IF last.op = "off" THEN last ELSE entry

ObjIds == 1 .. Len(objs)

Return(op, self, other, extra, res) ==
    /\ Len(objs) < MaxObjs
    /\ IF IsErr(res)
       THEN /\ UNCHANGED <<objs, lists>>
            /\ last' = Log([op |-> op, self |-> self, other |-> other, extra |-> extra,
                            ret |-> 0, err |-> res.err, flag |-> FALSE])
       ELSE /\ lists' = IF res.alias # 0 THEN lists ELSE Append(lists, res.deriv)
            /\ objs' = Append(objs,
                    [val |-> res.val,
                     deriv |-> IF res.alias # 0 THEN res.alias ELSE Len(lists) + 1])
            /\ last' = Log([op |-> op, self |-> self, other |-> other, extra |-> extra,
                            ret |-> Len(objs) + 1, err |-> "", flag |-> FALSE])
    /\ UNCHANGED <<mergeVars, call, writes>>

Answer(op, self, other, extra, res) ==
    /\ Len(objs) < MaxObjs
    /\ last' = Log([op |-> op, self |-> self, other |-> other, extra |-> extra,
                    ret |-> 0, err |-> IF IsErr(res) THEN res.err ELSE "",
                    flag |-> IF IsErr(res) THEN FALSE ELSE res.flag])
    /\ UNCHANGED <<objs, lists, mergeVars, call, writes>>

Operands == {Ref(o) : o \in ObjIds} \cup {Num(c) : c \in Scalars}

Construct ==
    \E v \in SeedVals, idx \in SeedIdx :
        Return("ADVar", 0, NoArg, Flt(idx, 0), __init__(v, idx))

Add == \E self \in ObjIds, other \in Operands :
           Return("add", self, other, Zero, __add__(self, other))

RAdd == \E self \in ObjIds, c \in Scalars :
            Return("radd", self, Num(c), Zero, __radd__(self, Num(c)))

Sub == \E self \in ObjIds, other \in Operands :
           Return("sub", self, other, Zero, __sub__(self, other))

RSub == \E self \in ObjIds, c \in Scalars :
            Return("rsub", self, Num(c), Zero, __rsub__(self, Num(c)))

Mul == \E self \in ObjIds, other \in Operands :
           Return("mul", self, other, Zero, __mul__(self, other))

RMul == \E self \in ObjIds, c \in Scalars :
            Return("rmul", self, Num(c), Zero, __rmul__(self, Num(c)))

Div == \E self \in ObjIds, other \in Operands :
           Return("div", self, other, Zero, __div__(self, other))

RDiv == \E self \in ObjIds, c \in Scalars :
            Return("rdiv", self, Num(c), Zero, __rdiv__(self, Num(c)))

Pow == \E self \in ObjIds, modulo \in Modulos,
          other \in {Ref(o) : o \in ObjIds} \cup {Num(c) : c \in PowExps} :
           Return("pow", self, other, Flt(modulo, 0), __pow__(self, other, modulo))

Abs == \E self \in ObjIds : Return("abs", self, NoArg, Zero, __abs__(self))

Pos == \E self \in ObjIds : Return("pos", self, NoArg, Zero, __pos__(self))

Neg == \E self \in ObjIds : Return("neg", self, NoArg, Zero, __neg__(self))

Exp == \E self \in ObjIds :
           /\ InMathDom("exp", Val(self))
           /\ Return("exp", self, NoArg, Zero, exp(Ref(self)))

LogCall == \E self \in ObjIds :
           /\ InMathDom("log", Val(self))
           /\ Return("log", self, NoArg, Zero, log(Ref(self)))

Sin == \E self \in ObjIds :
           /\ InMathDom("sin", Val(self))
           /\ Return("sin", self, NoArg, Zero, sin(Ref(self)))

Cos == \E self \in ObjIds :
           /\ InMathDom("cos", Val(self))
           /\ Return("cos", self, NoArg, Zero, cos(Ref(self)))

Aux1 == \E self \in ObjIds :
            /\ InMathDom("aux1", Val(self))
            /\ Return("aux1", self, NoArg, Zero, aux1(Ref(self)))

Aux2 == \E self \in ObjIds :
            /\ InMathDom("aux2", Val(self))
            /\ Return("aux2", self, NoArg, Zero, aux2(Ref(self)))

DerivEq == \E self \in ObjIds, other \in ObjIds :
               Answer("derivEq", self, Ref(other), Zero, derivEq(self, other))

DerivApproxEq ==
    \E self \in ObjIds, other \in ObjIds, tol \in Tols :
        Answer("derivApproxEq", self, Ref(other), tol, derivApproxEq(self, other, tol))

\* x.setVal(v)
SetVal ==
    \E self \in ObjIds, v \in SeedVals :
        /\ writes < MaxWrites
        /\ writes' = writes + 1
        /\ objs' = [objs EXCEPT ![self].val = v]
        /\ last' = Log([NoCall EXCEPT !.op = "setVal", !.self = self, !.extra = v])
        /\ UNCHANGED <<lists, mergeVars, call>>

\* x.getDeriv().append((idx, d)): getDeriv() hands out self.deriv itself
GetDerivAppend ==
    \E self \in ObjIds, entry \in Indices \X Partials :
        /\ writes < MaxWrites
        /\ writes' = writes + 1
        /\ lists' = [lists EXCEPT ![objs[self].deriv] = Append(@, entry)]
        /\ last' = Log([NoCall EXCEPT !.op = "getDeriv.append", !.self = self])
        /\ UNCHANGED <<objs, mergeVars, call>>

\* A free function called on a plain number.
ScalarCall(fn, c, out) ==
    /\ InMathDom(fn, c)
    /\ call' = [fn |-> fn, arg |-> c, out |-> out]
    /\ UNCHANGED <<objs, lists, last, mergeVars, writes>>

ExpScalar == \E c \in FnVals : ScalarCall("exp", c, exp(Num(c)))

LogScalar == \E c \in FnVals : ScalarCall("log", c, log(Num(c)))

SinScalar == \E c \in FnVals : ScalarCall("sin", c, sin(Num(c)))

CosScalar == \E c \in FnVals : ScalarCall("cos", c, cos(Num(c)))

Aux1Scalar == \E c \in FnVals : ScalarCall("aux1", c, aux1(Num(c)))

Aux2Scalar == \E c \in FnVals : ScalarCall("aux2", c, aux2(Num(c)))

-----------------------------------------------------------------------------
(* Specifications.                                                         *)

HeapIdle ==
    /\ objs = <<>>
    /\ lists = <<>>
    /\ last = NoCall

CallIdle ==
    /\ call = [fn |-> "none", arg |-> Zero, out |-> Zero]
    /\ writes = 0

MergeIdle ==
    /\ ma = [val |-> Zero, deriv |-> <<>>]
    /\ mb = [val |-> Zero, deriv |-> <<>>]
    /\ mfunc = "add"
    /\ mst = CalcDerivEntry
    /\ mpc = "returned"
    /\ miter = 0

\* The calls that return a quantity.
NextOps ==
    \/ Construct
    \/ Add \/ RAdd \/ Sub \/ RSub \/ Mul \/ RMul \/ Div \/ RDiv \/ Pow
    \/ Abs \/ Pos \/ Neg
    \/ Exp \/ LogCall \/ Sin \/ Cos \/ Aux1 \/ Aux2

\* Spec: quantities built from seeds by the operators and the free functions,
\* and compared; every call is logged.
Init == HeapIdle /\ CallIdle /\ MergeIdle

Next == NextOps \/ DerivEq \/ DerivApproxEq

Spec == Init /\ [][Next]_vars

\* SpecOps: the quantities the operators and the free functions build.
InitQuiet ==
    /\ objs = <<>>
    /\ lists = <<>>
    /\ last = Off
    /\ CallIdle
    /\ MergeIdle

SpecOps == InitQuiet /\ [][NextOps]_vars

\* SpecAlias: the same, with callers that write through setVal and through the
\* list getDeriv() returns.
NextAlias == NextOps \/ SetVal \/ GetDerivAppend

SpecAlias == InitQuiet /\ [][NextAlias]_vars

\* SpecFn: the free functions on a quantity and on plain numbers.
InitFn ==
    /\ \E v \in FnVals, d \in FnDerivs :
          /\ objs = <<[val |-> v, deriv |-> 1]>>
          /\ lists = <<d>>
    /\ last = NoCall
    /\ CallIdle
    /\ MergeIdle

NextFn ==
    \/ Exp \/ LogCall \/ Sin \/ Cos \/ Aux1 \/ Aux2
    \/ ExpScalar \/ LogScalar \/ SinScalar \/ CosScalar \/ Aux1Scalar \/ Aux2Scalar

SpecFn == InitFn /\ [][NextFn]_vars

\* SpecMerge: one call of _calcDeriv, an iteration at a time.
InitMerge ==
    /\ HeapIdle
    /\ CallIdle
    /\ ma \in [val : MergeVals, deriv : DerivSeqs]
    /\ mb \in [val : MergeVals, deriv : DerivSeqs]
    /\ mfunc \in Funcs
    /\ mst = CalcDerivEntry
    /\ mpc = "loop"
    /\ miter = 0

MergeIter ==
    /\ mpc = "loop"
    /\ CalcDerivMore(ma, mb, mst)
    /\ mst' = CalcDerivStep(ma, mb, mfunc, mst)
    /\ mpc' = IF mst'.err # "" THEN "raised" ELSE "loop"
    /\ miter' = miter + 1
    /\ UNCHANGED <<ma, mb, mfunc, objs, lists, last, call, writes>>

MergeReturn ==
    /\ mpc = "loop"
    /\ ~CalcDerivMore(ma, mb, mst)
    /\ mpc' = "returned"
    /\ UNCHANGED <<ma, mb, mfunc, mst, miter, objs, lists, last, call, writes>>

NextMerge == MergeIter \/ MergeReturn

SpecMerge == InitMerge /\ [][NextMerge]_vars

-----------------------------------------------------------------------------
(* The claims.                                                             *)

IndexSet(s) == {s[n][1] : n \in DOMAIN s}

\* What the merge is to hold for index k: func at the two partials, 0.0 where
\* k is absent.
MergeExpected(k) ==
    Lambda(mfunc, ma.val, mb.val, FirstPartial(ma.deriv, k, 1),
           FirstPartial(mb.deriv, k, 1))

\* C1: for well-formed a.deriv and b.deriv, what _calcDeriv returns has exactly
\* one entry per index of the union of their indices, in strictly ascending
\* order, and the entry for index k is func(a.val, b.val, dA, dB), dA and dB
\* the partials of a and b at k (0.0 where absent).
C1_MergeIsUnion ==
    mpc = "returned" =>
        /\ WellFormed(mst.deriv)
        /\ IndexSet(mst.deriv) = IndexSet(ma.deriv) \cup IndexSet(mb.deriv)
        /\ \A n \in DOMAIN mst.deriv : mst.deriv[n][2] = MergeExpected(mst.deriv[n][1])

\* C8: for well-formed inputs the merge loop ends within len(a.deriv) +
\* len(b.deriv) iterations, also when one sequence is exhausted first: the
\* exhausted side has no further indices (its cursor stays at the end and
\* nothing is read from it, so only func itself can raise), and every index is
\* emitted exactly once, in order.
C8_MergeTerminates ==
    /\ miter <= Len(ma.deriv) + Len(mb.deriv)
    /\ mst.i <= Len(ma.deriv) /\ mst.j <= Len(mb.deriv)
    /\ mpc = "raised" => mst.err = "ZeroDivisionError"
    /\ mpc = "returned" =>
          /\ WellFormed(mst.deriv)
          /\ Len(mst.deriv) = Cardinality(IndexSet(ma.deriv) \cup IndexSet(mb.deriv))
          /\ IndexSet(mst.deriv) = IndexSet(ma.deriv) \cup IndexSet(mb.deriv)

\* C2: every quantity built from seeds ADVar(v, i), i >= 0, and constants
\* ADVar(v) by the operators and the free functions has a derivative sequence
\* that is strictly ascending by index, with at most one entry per index.
C2_DerivAscending == \A o \in ObjIds : WellFormed(Deriv(o))

\* A quantity with two entries: the merge of quantities seeded at two indices.
C2_Merged == \E o \in ObjIds : Len(Deriv(o)) >= 2

\* C3: an operator leaves its operands unchanged, and what it returns shares no
\* mutable state with any of them: a write through one quantity (setVal, or a
\* change to the list its getDeriv() returns) changes the value and the
\* derivative sequence of no other quantity.
C3_NoSharedState ==
    [][/\ Len(objs') > Len(objs) => \A o \in ObjIds : Quantity(o)' = Quantity(o)
       /\ Cardinality({o \in ObjIds : Quantity(o)' # Quantity(o)}) <= 1]_vars

\* C4: product rule: c = a * b has c.val = a.val * b.val and, for every index
\* idx >= 0, c.getDeriv(idx) = b.val * a.getDeriv(idx) + a.val * b.getDeriv(idx).
C4_ProductRule ==
    (last.op = "mul" /\ isADVar(last.other) /\ last.err = "") =>
        LET a == last.self
            b == last.other.ref
            c == last.ret
        IN  /\ Val(c) = FMul(Val(a), Val(b))
            /\ \A idx \in Indices :
                  getDeriv(c, idx) = FAdd(FMul(Val(b), getDeriv(a, idx)),
                                          FMul(Val(a), getDeriv(b, idx)))

DomainErrors == {"ValueError", "ArithmeticError"}

\* C5: log(x) fails with a domain error when x.val < 0, and when x.val = 0 and
\* an entry of x.deriv is negative; when x.val = 0 and the entries of x.deriv
\* are all positive it does not fail and returns a quantity.
C5_LogDomain ==
    last.op = "log" =>
        LET v == Val(last.self)
            d == Deriv(last.self)
        IN  /\ v.m < 0 => last.err \in DomainErrors
            /\ (v.m = 0 /\ \E n \in DOMAIN d : d[n][2].m < 0) =>
                  last.err \in DomainErrors
            /\ (v.m = 0 /\ d # <<>> /\ \A n \in DOMAIN d : d[n][2].m > 0) =>
                  (last.err = "" /\ last.ret # 0)

\* C6: each of exp, log, sin, cos, aux1, aux2 computes the same function in both
\* overloads: where F(c) on the plain number c returns, F on a quantity with
\* value c returns a quantity with that value.
C6_OverloadsAgree ==
    (last.op \in FreeFns /\ call.fn = last.op /\ call.arg = Val(last.self)
        /\ ~IsErr(call.out)) =>
        (last.err = "" /\ Val(last.ret) = call.out)

\* The derivative the docstring of aux1 states (lines 392-394):
\* (sinh(y) - y*cosh(y)) / (sinh(y))^2.
DocumentedDAux1(y) ==
    LET sh == math_sinh(y)
    IN  FDiv(FSub(sh, FMul(y, math_cosh(y))), FMul(sh, sh))

\* C7: when the clamped input y of aux1 selects one of the two direct-ratio
\* derivative bands, the coefficient that scales every entry is
\* (sinh(y) - y*cosh(y)) / (sinh(y))^2, on both sides of the origin.
C7_RatioBandCoefficient ==
    (last.op = "aux1" /\ last.err = ""
        /\ Aux1Band(Aux1Clamp(Ref(last.self))) \in {"ratio-", "ratio+"}) =>
        \A n \in DOMAIN Deriv(last.ret) :
            Deriv(last.ret)[n][2] =
                FMul(DocumentedDAux1(Aux1Clamp(Ref(last.self))), Deriv(last.self)[n][2])

\* C9: for x.val <= _BP4_DAUX1 or x.val > _BP5_DAUX1, aux1(x) selects a
\* flat-zero derivative band, and every entry of the result is exactly 0.0.
C9_FarTailsFlat ==
    (last.op = "aux1"
        /\ (FLe(Val(last.self), _BP4_DAUX1) \/ FLt(_BP5_DAUX1, Val(last.self)))) =>
        /\ last.err = ""
        /\ Aux1Band(Aux1Clamp(Ref(last.self))) \in {"zero-", "zero+"}
        /\ \A n \in DOMAIN Deriv(last.ret) : Deriv(last.ret)[n][2] = Zero

\* C10: a.derivEq(b) implies a.derivApproxEq(b), for the default and for every
\* positive tolerance; so a.derivApproxEq(a) holds for every a.
C10_EqImpliesApproxEq ==
    (last.op = "derivApproxEq" /\ derivEq(last.self, last.other.ref) = Bool(TRUE)) =>
        (last.err = "" /\ last.flag)

====
